---- MODULE Spec2Model ----
(***************************************************************************)
(* A model of the batch aggregation engine of data-agregator:              *)
(*   src/src/data_aggregator/app.py      the Lambda handler (orchestrator) *)
(*   src/src/data_aggregator/core.py     bundling, hashing, upload         *)
(*   src/src/data_aggregator/clients.py  conditional put, S3 wrapper       *)
(*   src/src/data_aggregator/exceptions.py  the exception constructors     *)
(*                                                                         *)
(* Two specifications share the definitions:                               *)
(*   Spec      handler invocations (concurrent slots) sharing the          *)
(*             idempotency store, with a day clock and the TTL sweep.      *)
(*   SpecCore  process_and_stage_batch called with plain dict records, as  *)
(*             core.py's type annotations and unit tests do.               *)
(***************************************************************************)
EXTENDS Integers, Sequences, FiniteSets, TLC

VARIABLES
    store,      \* idempotency table: key -> expiry day, 0 when absent
    now,        \* wall clock, in days
    inv,        \* per slot: the state of the invocation running in it
    ninv,       \* number of invocations started so far
    claimsLog,  \* history: <<key, invocation id, day>> of every NEW claim
    uploads,    \* history: <<invocation id, key>> of every archive entry
                \* that a successful upload_gzipped_bundle stored
    breaker     \* the circuit-breaker item, its clients and the clock

vars == <<store, now, inv, ninv, claimsLog, uploads, breaker>>

-----------------------------------------------------------------------------
(* Bounds of the model.                                                    *)
MaxInvocations == 3
MaxClock == 7
MaxCoreRecords == 3

(* Program constants.                                                      *)
BLOCKSIZE == 512
MiB == 1048576
idempotency_ttl_days == 7
spool_file_max_size_mb == 64
timeout_guard_threshold_seconds == 10
max_bundle_on_disk_mb == 400
max_bundle_input_mb == 100

spool_file_max_size_bytes == spool_file_max_size_mb * MiB
timeout_guard_threshold_ms == timeout_guard_threshold_seconds * 1000
max_bundle_on_disk_bytes == max_bundle_on_disk_mb * MiB
max_bundle_input_bytes == max_bundle_input_mb * MiB

Slots == {1, 2}

-----------------------------------------------------------------------------
(* Sequence helpers.                                                       *)
Range(s) == {s[i] : i \in DOMAIN s}

-----------------------------------------------------------------------------
(* The input universe: S3 event records, SQS envelopes and batches.        *)
NoValue == "<missing>"

RawRecord(b, k, sz, v, q) ==
    [bucket |-> b, key |-> k, size |-> sz, versionId |-> v, sequencer |-> q]

R1 == RawRecord("src", "a.bin", 11, NoValue, "000A")
R2 == RawRecord("src", "d/b.log", 101 * MiB, NoValue, "000B")
\* the object of R1 as notified for another bucket: same key and sequencer
R1b == RawRecord("other", "a.bin", 11, NoValue, "000A")
\* no sequencer: S3ObjectModel.sequencer is required
RNoSeq == RawRecord("src", "c.bin", 5, NoValue, NoValue)
\* a key the parse-time sanitizer rejects
RTraversal == RawRecord("src", "folder/../../etc/passwd", 5, NoValue, "000C")

\* body: "json" (a JSON object), "empty" (a falsy body) or "notjson"
Envelope(kind, recs) == [body |-> kind, Records |-> recs]

EnvelopeOf(mid) ==
    CASE mid = "m1" -> Envelope("json", <<R1>>)
      [] mid = "m2" -> Envelope("json", <<R2>>)
      [] mid = "m3" -> Envelope("json", <<R1b>>)
      [] mid = "m4" -> Envelope("json", <<RNoSeq>>)
      [] mid = "m5" -> Envelope("json", <<>>)
      [] mid = "m6" -> Envelope("notjson", <<>>)
      [] mid = "m7" -> Envelope("json", <<RTraversal, R2>>)
      [] OTHER -> Envelope("empty", <<>>)

\* the SQS events (lists of messageIds) the handler is invoked with
Batches ==
    { <<"m1">>, <<"m1", "m3">>, <<"m4", "m1">>, <<"m2", "m6">>, <<"m7", "m1">>,
      <<"m8", "m5">> }

\* dict records handed to process_and_stage_batch directly
DictRecord(k, sz) ==
    [bucket |-> "b", key |-> k, size |-> sz, version_id |-> NoValue,
     sequencer |-> NoValue, original_key |-> k]

DictRecords ==
    { DictRecord("f1.txt", 5),
      DictRecord("d/f2.log", 399 * MiB),
      \* a DEL character (0x7F) in the name; after d/f2.log its padded size
      \* fills the disk budget to the last byte
      DictRecord("g<DEL>.bin", MiB - 3),
      DictRecord("foo/../../etc/passwd", 5),
      \* a `..` segment that normpath folds away
      DictRecord("d/../f1.txt", 5),
      \* the key of the first record, notified for another bucket
      [DictRecord("f1.txt", 5) EXCEPT !.bucket = "b2"] }

RECURSIVE InjectiveSeqs(_, _)
\* the sequences of pairwise distinct elements of S, of length 1..n
InjectiveSeqs(S, n) ==
    IF n = 0 THEN {<<>>}
    ELSE LET shorter == InjectiveSeqs(S, n - 1)
         IN  shorter \cup
             UNION {{Append(q, x) : x \in S \ Range(q)} : q \in shorter}

CoreInputs == InjectiveSeqs(DictRecords, MaxCoreRecords) \ {<<>>}

-----------------------------------------------------------------------------
(* Pure helpers of app.py, schemas.py and exceptions.py.                   *)

\* key.split("/") for the keys of this universe
KeyParts(key) ==
    CASE key = "folder/../../etc/passwd" -> <<"folder", "..", "..", "etc", "passwd">>
      [] key = "foo/../../etc/passwd" -> <<"foo", "..", "..", "etc", "passwd">>
      [] key = "d/../f1.txt" -> <<"d", "..", "f1.txt">>
      [] key = "d/f2.log" -> <<"d", "f2.log">>
      [] key = "d/b.log" -> <<"d", "b.log">>
      [] OTHER -> <<key>>

\* the classes of non-printable characters a key of this universe holds:
\* "C0" (below 0x1F), "US" (0x1F), "DEL" (0x7F), "Cf" (Unicode format)
CharClasses(key) == IF key = "g<DEL>.bin" THEN {"DEL"} ELSE {}

\* the checks of security.sanitize_s3_key that the keys of this universe
\* exercise, on a path given by its segments and its character classes:
\* no control (0x00-0x1F, 0x7F) or format character, no `..` segment, and a
\* normalised path that is not empty
KeySanitizerAccepts(parts, classes) ==
    /\ classes \cap {"C0", "US", "DEL", "Cf"} = {}
    /\ \A i \in DOMAIN parts : parts[i] # ".."
    /\ \E i \in DOMAIN parts : parts[i] \notin {"", "."}

\* security.sanitize_s3_key: a rejected key raises (NoValue); the keys of
\* this universe that pass are already relative and normal, and are returned
\* as they are
sanitize_s3_key(key) ==
    IF KeySanitizerAccepts(KeyParts(key), CharClasses(key)) THEN key ELSE NoValue

\* S3EventNotificationRecord.model_validate: bucket name and key of length
\* >= 1, a sequencer, and a key the sanitizer accepts.
ModelValidateOk(raw) ==
    /\ raw.bucket \notin {NoValue, ""}
    /\ raw.key \notin {NoValue, ""}
    /\ raw.sequencer # NoValue
    /\ sanitize_s3_key(raw.key) # NoValue

ModelValidate(raw) ==
    [bucket |-> raw.bucket, key |-> sanitize_s3_key(raw.key),
     size |-> raw.size, version_id |-> raw.versionId,
     sequencer |-> raw.sequencer, original_key |-> raw.key]

\* quote(json.dumps({"k": key, "u": version or sequencer})): an injective
\* encoding of the pair; a missing or empty version falls back to sequencer.
MakeIdempotencyKey(key, version, sequencer) ==
    <<key, IF version \in {NoValue, ""} THEN sequencer ELSE version>>

RecordKey(r) == MakeIdempotencyKey(r.original_key, r.version_id, r.sequencer)

AllMids == {"m1", "m2", "m3", "m4", "m5", "m6", "m7", "m8"}

AllRaw == UNION {Range(EnvelopeOf(m).Records) : m \in AllMids}

IdemKeys == {RecordKey(ModelValidate(raw)) : raw \in {x \in AllRaw : ModelValidateOk(x)}}

\* a faulty variant (every id of the map), to show C5 depends on the lookup
GetMessageIdsForS3Records_WholeMap(s3_records, record_to_message_id_map) ==
    {p[2] : p \in record_to_message_id_map}

\* a faulty variant (one envelope id per record), to show C21 depends on the
\* map holding a set of ids per key
GetMessageIdsForS3Records_OnePerKey(s3_records, record_to_message_id_map) ==
    {(CHOOSE q \in record_to_message_id_map : q[1] = RecordKey(s3_records[i]))[2] :
        i \in {j \in DOMAIN s3_records :
                  \E q \in record_to_message_id_map : q[1] = RecordKey(s3_records[j])}}

\* the union of map[key] over the given records
GetMessageIdsForS3Records(s3_records, record_to_message_id_map) ==
    {p[2] : p \in {q \in record_to_message_id_map :
                       \E i \in DOMAIN s3_records : q[1] = RecordKey(s3_records[i])}}

\* Exception constructors. BundleCreationError.__init__ and
\* MemoryLimitError.__init__ pass error_code= and context= to the base class
\* themselves, so a caller that passes error_code= as well gets
\* "TypeError: got multiple values for keyword argument 'error_code'".
BundleCreationErrorNew(error_code_given) ==
    IF error_code_given THEN "TypeError" ELSE "BundleCreationError"

MemoryLimitErrorNew(error_code_given) ==
    IF error_code_given THEN "TypeError" ELSE "MemoryLimitError"

\* DiskSpaceError.__init__(required_bytes, available_bytes, **kwargs)
DiskSpaceErrorNew(positional, error_code_given) ==
    IF positional < 2 \/ error_code_given THEN "TypeError" ELSE "DiskSpaceError"

RetryableErrors ==
    {"S3ThrottlingError", "S3TimeoutError", "BundleCreationError",
     "DiskSpaceError", "MemoryLimitError"}

NonRetryableErrors ==
    {"ValidationError", "InvalidS3EventError", "S3AccessDeniedError",
     "S3ObjectNotFoundError"}

is_retryable_error(exc) == exc \in RetryableErrors

\* The except clauses of _process_valid_records: the ids it returns for an
\* exception of process_and_stage_batch, or caught = FALSE when none matches
\* and the exception leaves the function.
ProcessValidRecordsExcept(exc, all_ids) ==
    CASE exc \in {"MemoryLimitError", "DiskSpaceError"} ->
            [caught |-> TRUE, ids |-> all_ids]
      [] exc = "BundleCreationError" ->
            [caught |-> TRUE,
             ids |-> IF is_retryable_error(exc) THEN all_ids ELSE {}]
      [] exc \in {"S3ThrottlingError", "S3TimeoutError"} ->
            [caught |-> TRUE, ids |-> all_ids]
      [] exc = "S3AccessDeniedError" ->
            [caught |-> TRUE, ids |-> {}]
      [] exc \in (RetryableErrors \cup NonRetryableErrors) ->
            [caught |-> TRUE,
             ids |-> IF is_retryable_error(exc) THEN all_ids ELSE {}]
      [] OTHER -> [caught |-> FALSE, ids |-> {}]

\* The except clauses of process_and_stage_batch around the bundle context.
ProcessAndStageExcept(exc) ==
    IF exc \in {"MemoryLimitError", "DiskSpaceError", "BundleCreationError"}
    THEN exc
    ELSE BundleCreationErrorNew(TRUE)

-----------------------------------------------------------------------------
(* The archive stream. What reaches the spool file is a sequence of        *)
(* tokens <<kind, record index, byte count>>: the gzip header, then per    *)
(* entry a tar header, its content bytes and its padding, then the tar     *)
(* end-of-archive blocks and the gzip trailer.                             *)
Tok(kind, i, n) == <<kind, i, n>>

KindCode(kind) ==
    CASE kind = "gzhdr" -> 1
      [] kind = "hdr" -> 2
      [] kind = "data" -> 3
      [] kind = "pad" -> 4
      [] kind = "eof" -> 5
      [] kind = "gztrl" -> 6
      [] OTHER -> 0

TokCode(t) == KindCode(t[1]) + 7 * t[2] + 13 * (t[3] % 9973)

RECURSIVE Sha256Update(_, _, _)
\* the digest state after feeding toks[i..]: a 16-bit rolling digest stands
\* for SHA-256 (a function of the bytes, sensitive to every token and to
\* their order)
Sha256Update(h, toks, i) ==
    IF i > Len(toks) THEN h
    ELSE Sha256Update((h * 31 + TokCode(toks[i])) % 65521, toks, i + 1)

Sha256(toks) == Sha256Update(7, toks, 1)

\* a faulty variant (the gzip trailer bypasses the hasher), to show C9
\* depends on the tee
HashingWrite_NoTee(v, toks) ==
    [v EXCEPT !.spool = @ \o toks,
              !.spool_pos = Len(v.spool) + Len(toks),
              !.hashed = @ \o SelectSeq(toks, LAMBDA t : t[1] # "gztrl")]

\* HashingFileWrapper.write: update the hasher, then write to the file
HashingWrite(v, toks) ==
    [v EXCEPT !.spool = @ \o toks,
              !.spool_pos = Len(v.spool) + Len(toks),
              !.hashed = @ \o toks]

\* tarfile pads each entry to a multiple of BLOCKSIZE
PadLen(n) == (BLOCKSIZE - (n % BLOCKSIZE)) % BLOCKSIZE

PaddedSize(actual_size) == ((actual_size + 511) \div 512) * 512

\* TarFile.addfile: the header, then copyfileobj of tarinfo.size bytes from a
\* source that holds avail bytes, then the padding. A source that ends early
\* makes copyfileobj raise OSError("unexpected end of data") after the
\* header and the bytes read so far are written.
AddFileTokens(i, size, avail) ==
    IF avail >= size
    THEN <<Tok("hdr", i, size)>>
         \o (IF size > 0 THEN <<Tok("data", i, size)>> ELSE <<>>)
         \o (IF PadLen(size) > 0 THEN <<Tok("pad", i, PadLen(size))>> ELSE <<>>)
    ELSE <<Tok("hdr", i, size)>>
         \o (IF avail > 0 THEN <<Tok("data", i, avail)>> ELSE <<>>)

RECURSIVE TarWellFormedFrom(_, _)
\* a reader's view of the tar stream toks[p..]: every header is followed by
\* exactly its size in content bytes and its padding, up to the end marker
TarWellFormedFrom(toks, p) ==
    IF p > Len(toks) THEN FALSE
    ELSE IF toks[p][1] = "eof" THEN p + 1 = Len(toks) /\ toks[p + 1][1] = "gztrl"
    ELSE IF toks[p][1] # "hdr" THEN FALSE
    ELSE LET size == toks[p][3]
             nd == IF size > 0 THEN 1 ELSE 0
             np == IF PadLen(size) > 0 THEN 1 ELSE 0
         IN  /\ p + nd + np <= Len(toks)
             /\ nd = 1 => toks[p + 1] = Tok("data", toks[p][2], size)
             /\ np = 1 => toks[p + nd + 1] = Tok("pad", toks[p][2], PadLen(size))
             /\ TarWellFormedFrom(toks, p + nd + np + 1)

\* a valid gzip + tar stream
ValidArchive(toks) ==
    /\ Len(toks) >= 3
    /\ toks[1][1] = "gzhdr"
    /\ TarWellFormedFrom(toks, 2)

\* the record indexes whose header is in the stream
HeaderIdxs(toks) == {toks[p][2] : p \in {q \in DOMAIN toks : toks[q][1] = "hdr"}}

-----------------------------------------------------------------------------
(* The state of one invocation.                                            *)
IdleInv ==
    [pc |-> "idle",            \* idle, firstpass, filtered, bundling,
                               \* yielded, returned, done
     entry |-> "none",         \* "handler", "direct" (the e2e_test_direct_invoke
                               \* route of the handler) or "core" (direct call
                               \* of core.py)
     environment |-> "none",   \* CONFIG.environment as the direct route read it
     raw_records |-> <<>>,     \* event["records"] of the direct route
     id |-> 0,
     batch |-> <<>>,           \* the messageIds of the SQS event
     ei |-> 1, ri |-> 1,       \* first pass: envelope and record position
     records |-> <<>>,         \* records_to_process
     rep |-> "none",           \* "model" (pydantic objects) or "dict"
     failed_message_ids |-> {},
     map |-> {},               \* record_to_message_id_map as <<key, id>> pairs
     malformed |-> {},         \* history: envelopes that failed parsing or validation
     idemErr |-> {},           \* history: envelopes whose claim raised an error
     dups |-> {},              \* history: keys this invocation found claimed
     idx |-> 1,                \* position of the record loop
     processed_records |-> <<>>,
     bytes_written |-> 0,
     spool |-> <<>>,           \* content of output_spool_file
     hashed |-> <<>>,          \* what the hasher was fed
     spool_pos |-> 0,          \* read/write position of output_spool_file
     sha256_hash |-> 0,
     fetched |-> {},           \* history: positions get_file_content_stream was called for
     checked |-> {},           \* history: <<position, bytes_written>> at each disk check passed
     lowTimeAt |-> 0,          \* history: position whose time check was below the threshold
     stopKind |-> "none",      \* "time" or "disk" when a budget check ended the loop
     streamed |-> {},          \* history: <<position, bytes the store streamed>>
     uploadCalls |-> 0,
     uploadedBytes |-> <<>>,   \* history: what upload_fileobj read
     uploadedHash |-> 0,       \* history: the content_hash it was given
     uploadFailed |-> FALSE,   \* history: upload_gzipped_bundle raised
     output_spool_file |-> "none",  \* "open" from its creation to its close()
     wrapper_closed |-> FALSE, \* history: close() was called on the wrapper
     opened |-> {},            \* history: <<position, "stream" or "buffer">> of
                               \* the readers created for the records
     closed |-> {},            \* history: the readers that were closed
     exc |-> "none",           \* the exception process_and_stage_batch raised
     remaining_records |-> <<>>,
     hresult |-> "none",       \* "response" or "raised"
     response |-> {},          \* the itemIdentifiers of batchItemFailures
     batchItemFailures |-> <<>>,  \* the list the handler returned
     call |-> [fn |-> "none",  \* a function called on its own: "sanitize_s3_key"
                               \* or "_make_idempotency_key"
               key |-> <<>>,   \* sanitize_s3_key: the key, as a sequence of symbols
               rec |-> <<>>,   \* _make_idempotency_key: <<key, version, sequencer>>
               done |-> 0,     \* the number of calls made
               out |-> [ok |-> FALSE, path |-> <<>>, error_code |-> "none"],
               again |-> [ok |-> FALSE, path |-> <<>>, error_code |-> "none"],
               idem |-> <<>>]] \* the string _make_idempotency_key returned

-----------------------------------------------------------------------------
(* create_tar_gz_bundle_stream: the body of the record loop.               *)

\* faulty variants of the two checks and of the size validation (they never
\* refuse), to show C8, C7 and C10 depend on them
TimeGuardFires_Never(remaining_ms) == FALSE

\* 1. the time budget check
TimeGuardFires(remaining_ms) == remaining_ms < timeout_guard_threshold_ms

DiskGuardFires_Never(bytes_written, metadata_size) == FALSE

\* 2. the disk budget check
DiskGuardFires(bytes_written, metadata_size) ==
    (bytes_written + metadata_size) > max_bundle_on_disk_bytes

RECURSIVE NormPathFrom(_, _, _)
\* os.path.normpath on the segments of a relative path: empty and `.`
\* segments are dropped, a `..` removes the segment before it unless there
\* is none or it is a `..` itself
NormPathFrom(parts, i, acc) ==
    IF i > Len(parts) THEN acc
    ELSE IF parts[i] \in {"", "."} THEN NormPathFrom(parts, i + 1, acc)
    ELSE IF parts[i] # ".." \/ acc = <<>> \/ acc[Len(acc)] = ".."
    THEN NormPathFrom(parts, i + 1, Append(acc, parts[i]))
    ELSE NormPathFrom(parts, i + 1, SubSeq(acc, 1, Len(acc) - 1))

NormPath(parts) == NormPathFrom(parts, 1, <<>>)

\* what core._sanitize_s3_key yields for a key it raises ValidationError on
Rejected == <<>>

\* core._sanitize_s3_key: the segments of safe_key, or Rejected. A character
\* below 0x1F is refused; the key is normalised with normpath and refused
\* when the result is empty, `.` or starts with `..`. So
\* "foo/../../etc/passwd" (normalised "../etc/passwd") is refused, while
\* "d/../f1.txt" (normalised "f1.txt") and a key with 0x1F or DEL pass.
core_sanitize_s3_key(key) ==
    LET safe_key == NormPath(KeyParts(key))
    IN  IF "C0" \in CharClasses(key) THEN Rejected
        ELSE IF safe_key = <<>> THEN Rejected
        ELSE IF safe_key[1] = ".." THEN Rejected
        ELSE safe_key

BufferAndValidate_Any(copied, expected_size) == TRUE

\* _buffer_and_validate: TRUE when the buffered copy is returned
BufferAndValidate(copied, expected_size) == copied = expected_size

\* what the object store streams for a record of the declared size
FetchOutcomes == {"ok", "short", "long", "ClientError", "MemoryError", "ENOSPC"}

StreamedBytes(size, o) ==
    CASE o = "short" -> IF size > 0 THEN size - 1 ELSE 0
      [] o = "long" -> size + 1
      [] OTHER -> size

\* the values get_remaining_time_in_millis() returns at a check
TimeSamples == {timeout_guard_threshold_ms - 1, timeout_guard_threshold_ms}

Break(v, kind) == [v EXCEPT !.stopKind = kind]

Continue(v) == [v EXCEPT !.idx = @ + 1]

\* an exception leaves the loop, the tar context and the generator; the
\* except clauses of process_and_stage_batch turn it into what the caller sees
Raise(v, exc) ==
    [v EXCEPT !.pc = "returned", !.exc = ProcessAndStageExcept(exc),
              \* finally: output_spool_file.close()
              !.output_spool_file = "closed"]

\* tar.addfile, then steps 5 of the loop when it returned
AddFile(v, actual_size, avail) ==
    LET w == HashingWrite(v, AddFileTokens(v.idx, actual_size, avail))
    IN  IF avail >= actual_size
        THEN [w EXCEPT !.processed_records = Append(@, v.records[v.idx]),
                       !.bytes_written = @ + PaddedSize(actual_size),
                       !.idx = @ + 1]
        ELSE Continue(w)   \* OSError without errno 28: log and continue

\* the readers step 3 creates for the record at position i: the object
\* stream, unless get_file_content_stream raised, and for a small file the
\* SpooledTemporaryFile of _buffer_and_validate
OpenedReaders(i, metadata_size, o) ==
    IF o = "ClientError" THEN {}
    ELSE IF metadata_size < spool_file_max_size_bytes
    THEN {<<i, "stream">>, <<i, "buffer">>}
    ELSE {<<i, "stream">>}

\* the readers closed when the iteration ends. `with closing(stream)` and
\* `with closing(fileobj_for_tarball)` close on every exit. The buffer is
\* closed by _buffer_and_validate on a size mismatch and by the second
\* `with` once it was returned; an exception in the copy loop (the
\* MemoryError of a small file arises there, where the buffer grows in
\* memory) leaves _buffer_and_validate with the buffer open.
ClosedReaders(i, metadata_size, o) ==
    IF o = "ClientError" THEN {}
    ELSE IF metadata_size < spool_file_max_size_bytes /\ o = "MemoryError"
    THEN {<<i, "stream">>}
    ELSE OpenedReaders(i, metadata_size, o)

\* steps 3 to 5 for a record that passed both checks and the sanitizer
FetchAndAdd(v, o) ==
    LET record == v.records[v.idx]
        metadata_size == record.size
        f == [v EXCEPT !.fetched = @ \cup {v.idx},
                       !.opened = @ \cup OpenedReaders(v.idx, metadata_size, o),
                       !.closed = @ \cup ClosedReaders(v.idx, metadata_size, o)]
        g == [f EXCEPT !.streamed = @ \cup {<<v.idx, StreamedBytes(metadata_size, o)>>}]
    IN  CASE o = "ClientError" -> Continue(f)
          [] o = "MemoryError" -> Raise(f, MemoryLimitErrorNew(TRUE))
          [] o = "ENOSPC" -> Raise(f, DiskSpaceErrorNew(1, TRUE))
          [] OTHER ->
             IF metadata_size < spool_file_max_size_bytes
             THEN IF BufferAndValidate(StreamedBytes(metadata_size, o), metadata_size)
                  THEN AddFile(g, StreamedBytes(metadata_size, o),
                               StreamedBytes(metadata_size, o))
                  ELSE Continue(g)
             ELSE AddFile(g, metadata_size, StreamedBytes(metadata_size, o))

LoopBody(v, remaining_ms, o) ==
    LET record == v.records[v.idx]
    IN  IF TimeGuardFires(remaining_ms)
        THEN Break(v, "time")
        ELSE IF v.rep = "model"
        \* record["s3"] on a pydantic object is a TypeError; the generic
        \* handler then calls record.get, an AttributeError that escapes
        THEN Raise(v, "AttributeError")
        ELSE IF DiskGuardFires(v.bytes_written, record.size)
        THEN Break(v, "disk")
        ELSE LET c == [v EXCEPT !.checked = @ \cup {<<v.idx, v.bytes_written>>}]
             IN  IF core_sanitize_s3_key(record.key) = Rejected
                 THEN Continue(c)
                 ELSE FetchAndAdd(c, o)

-----------------------------------------------------------------------------
(* The circuit breaker of clients.py: one DynamoDB item shared by every    *)
(* CircuitBreakerClient, and callers whose methods are sequences of        *)
(* requests to the table; the requests of different callers interleave.    *)

\* bounds of the circuit-breaker model
MaxCalls == 5
MaxBreakerTime == 2

\* CircuitBreakerClient instances (Lambda invocations) using the same item
Callers == {1, 2}

\* the failure_threshold values of the constructor the model is run with
Thresholds == {1, 2}

\* the constructor's open_duration_seconds, in ticks of time.time()
open_duration_seconds == 1

IdleCaller ==
    [pc |-> "idle",             \* idle, get_item, update_item, add, put_item:
                                \* the request the caller sends next
     op |-> "none",             \* the method called: get_state, record_failure
     seen |-> 0,                \* the OPEN write get_item showed as expired
     previous_state |-> "none", \* current_state_before_update
     new_count |-> 0,           \* failure_count returned by the ADD
     ret |-> "none"]            \* what the last get_state() returned

\* the table before any write, and a client constructed with failure_threshold
CircuitBreakerClient(failure_threshold) ==
    [failure_threshold |-> failure_threshold,
     \* the item; state "none" while the item or its state attribute is absent
     item |-> [state |-> "none", failure_count |-> 0, last_updated |-> 0],
     time |-> 0,                \* time.time()
     caller |-> [c \in Callers |-> IdleCaller],
     metric |-> 0,              \* CircuitBreakerOpen metrics emitted
     calls |-> 0,               \* history: method calls started
     failures |-> 0,            \* history: record_failure calls that returned
     store_errors |-> 0,        \* history: requests that raised ClientError
     open_writes |-> 0,         \* history: put_item requests that wrote OPEN
     opened |-> 0,              \* history: writes that changed the state to OPEN
     half_opened |-> <<>>,      \* history: per OPEN -> HALF_OPEN update, the
                                \* OPEN write its caller had seen
     adds_in_state |-> 0]       \* history: ADDs since the stored state changed

\* item.get("state", {}).get("S", "CLOSED"), also for a missing item
StoredState(item) == IF item.state = "none" THEN "CLOSED" ELSE item.state

\* get_state returns `state` to its caller: to record_failure, which goes
\* on with the ADD, or to the user of the client
GetStateReturn(b, c, state) ==
    IF b.caller[c].op = "record_failure"
    THEN [b EXCEPT !.caller[c].pc = "add", !.caller[c].previous_state = state]
    ELSE [b EXCEPT !.caller[c] = [IdleCaller EXCEPT !.ret = state]]

\* get_state from its get_item to the first return or to the update_item
GetItem(b, c, fault) ==
    IF fault
    \* except ClientError: "Defaulting to CLOSED"
    THEN GetStateReturn([b EXCEPT !.store_errors = @ + 1], c, "CLOSED")
    ELSE IF StoredState(b.item) = "OPEN"
    THEN IF b.time - b.item.last_updated > open_duration_seconds
         THEN [b EXCEPT !.caller[c].pc = "update_item",
                        !.caller[c].seen = b.open_writes]
         ELSE GetStateReturn(b, c, "OPEN")
    ELSE GetStateReturn(b, c, StoredState(b.item))

\* a method with a get_state at its start is called
CallGetState(c, op) ==
    /\ breaker.caller[c].pc = "idle"
    /\ breaker.calls < MaxCalls
    /\ \E fault \in BOOLEAN :
          breaker' = GetItem([breaker EXCEPT !.calls = @ + 1,
                                             !.caller[c] = [IdleCaller EXCEPT !.op = op]],
                             c, fault)
    /\ UNCHANGED <<store, now, inv, ninv, claimsLog, uploads>>

\* `return self.get_state()` after ConditionalCheckFailedException
Refetch(c) ==
    /\ breaker.caller[c].pc = "get_item"
    /\ \E fault \in BOOLEAN : breaker' = GetItem(breaker, c, fault)
    /\ UNCHANGED <<store, now, inv, ninv, claimsLog, uploads>>

\* the conditional update of get_state: SET state = HALF_OPEN,
\* last_updated = now, on the condition state = OPEN
UpdateItem(c) ==
    /\ breaker.caller[c].pc = "update_item"
    /\ \E fault \in BOOLEAN :
          breaker' =
              IF fault
              \* another ClientError is re-raised and caught by the outer except
              THEN GetStateReturn([breaker EXCEPT !.store_errors = @ + 1], c, "CLOSED")
              ELSE IF breaker.item.state = "OPEN"
              THEN GetStateReturn(
                       [breaker EXCEPT !.item.state = "HALF_OPEN",
                                       !.item.last_updated = breaker.time,
                                       !.half_opened = Append(@, breaker.caller[c].seen),
                                       !.adds_in_state = 0],
                       c, "HALF_OPEN")
              ELSE [breaker EXCEPT !.caller[c].pc = "get_item"]
    /\ UNCHANGED <<store, now, inv, ninv, claimsLog, uploads>>

\* record_failure after its get_state: ADD failure_count 1, then the
\* comparison with the threshold; a ClientError opens the circuit as a
\* fallback
AddFailure(c) ==
    /\ breaker.caller[c].pc = "add"
    /\ \E fault \in BOOLEAN :
          breaker' =
              IF fault
              THEN [breaker EXCEPT !.store_errors = @ + 1,
                                   !.caller[c].pc = "put_item",
                                   !.caller[c].new_count = 0]
              ELSE LET new_count == breaker.item.failure_count + 1
                       b == [breaker EXCEPT !.item.failure_count = new_count,
                                            !.adds_in_state = @ + 1]
                   IN  IF new_count >= breaker.failure_threshold
                       THEN [b EXCEPT !.caller[c].pc = "put_item",
                                      !.caller[c].new_count = new_count]
                       ELSE [b EXCEPT !.caller[c] = IdleCaller, !.failures = @ + 1]
    /\ UNCHANGED <<store, now, inv, ninv, claimsLog, uploads>>

\* set_state("OPEN", previous_state): an unconditional put_item of the whole
\* item, then the metric unless previous_state was OPEN
SetStateOpen(c) ==
    /\ breaker.caller[c].pc = "put_item"
    /\ \E fault \in BOOLEAN :
          breaker' =
              IF fault
              \* except ClientError: logged only
              THEN [breaker EXCEPT !.store_errors = @ + 1,
                                   !.caller[c] = IdleCaller, !.failures = @ + 1]
              ELSE [breaker EXCEPT
                       !.item = [state |-> "OPEN", failure_count |-> 0,
                                 last_updated |-> breaker.time],
                       !.open_writes = @ + 1,
                       !.opened = IF StoredState(breaker.item) # "OPEN" THEN @ + 1 ELSE @,
                       !.adds_in_state =
                           IF StoredState(breaker.item) # "OPEN" THEN 0 ELSE @,
                       !.metric = IF breaker.caller[c].previous_state # "OPEN"
                                  THEN @ + 1 ELSE @,
                       !.caller[c] = IdleCaller,
                       !.failures = @ + 1]
    /\ UNCHANGED <<store, now, inv, ninv, claimsLog, uploads>>

\* record_success: one conditional update, SET state = CLOSED,
\* failure_count = 0, on the condition state = HALF_OPEN
RecordSuccess(c) ==
    /\ breaker.caller[c].pc = "idle"
    /\ breaker.calls < MaxCalls
    /\ \E fault \in BOOLEAN :
          breaker' =
              IF fault
              \* a ClientError other than the failed condition is raised
              THEN [breaker EXCEPT !.calls = @ + 1, !.store_errors = @ + 1,
                                   !.caller[c] = [IdleCaller EXCEPT !.op = "record_success"]]
              ELSE IF breaker.item.state = "HALF_OPEN"
              THEN [breaker EXCEPT !.calls = @ + 1,
                                   !.item.state = "CLOSED",
                                   !.item.failure_count = 0,
                                   !.adds_in_state = 0,
                                   !.caller[c] = [IdleCaller EXCEPT !.op = "record_success"]]
              ELSE [breaker EXCEPT !.calls = @ + 1,
                                   !.caller[c] = [IdleCaller EXCEPT !.op = "record_success"]]
    /\ UNCHANGED <<store, now, inv, ninv, claimsLog, uploads>>

\* a second of time.time() passes
BreakerTick ==
    /\ breaker.time < MaxBreakerTime
    /\ breaker' = [breaker EXCEPT !.time = @ + 1]
    /\ UNCHANGED <<store, now, inv, ninv, claimsLog, uploads>>

-----------------------------------------------------------------------------
(* The idempotency store: a conditional put per key, with an expiry.       *)
\* a faulty variant (a put without the condition), to show C1 depends on it
ClaimIsNew_Unconditional(st, k) == TRUE

\* ConditionExpression attribute_not_exists(object_key)
ClaimIsNew(st, k) == st[k] = 0

Init ==
    /\ store = [k \in IdemKeys |-> 0]
    /\ now = 0
    /\ inv = [s \in Slots |-> IdleInv]
    /\ ninv = 0
    /\ claimsLog = {}
    /\ uploads = {}
    /\ breaker = CircuitBreakerClient(2)

\* The steps of an invocation after its first pass touch no state another
\* invocation reads, so they run without interleaving; the first pass, where
\* invocations race on the store, interleaves freely.
Alone(s) == \A t \in Slots \ {s} : inv[t].pc \in {"idle", "firstpass"}

\* handler(event, context) up to the first pass: the batch statistics of
\* lines 367-372 call json.loads on every truthy body outside any try
Invoke(s, b) ==
    /\ inv[s].pc = "idle"
    /\ Alone(s)
    /\ ninv < MaxInvocations
    /\ ninv' = ninv + 1
    /\ inv' = [inv EXCEPT ![s] =
            IF \E i \in DOMAIN b : EnvelopeOf(b[i]).body = "notjson"
            THEN [IdleInv EXCEPT !.id = ninv + 1, !.entry = "handler",
                                 !.batch = b, !.rep = "model",
                                 !.pc = "done", !.hresult = "raised"]
            ELSE [IdleInv EXCEPT !.id = ninv + 1, !.entry = "handler",
                                 !.batch = b, !.rep = "model",
                                 !.pc = "firstpass"]]
    /\ UNCHANGED <<store, now, claimsLog, uploads, breaker>>

\* the first-pass position after one record (or one unparsable envelope)
Advance(w, env, whole) ==
    LET n == IF whole \/ w.ri >= Len(env.Records)
             THEN [w EXCEPT !.ei = @ + 1, !.ri = 1]
             ELSE [w EXCEPT !.ri = @ + 1]
    IN  IF n.ei > Len(n.batch) THEN [n EXCEPT !.pc = "filtered"] ELSE n

\* a faulty variant (a duplicate fails its envelope), to show C20 depends on
\* the handling of the duplicate
OnItemAlreadyExists_Fails(m, mid, idempotency_key) ==
    [m EXCEPT !.dups = @ \cup {idempotency_key},
              !.failed_message_ids = @ \cup {mid}]

\* except IdempotencyItemAlreadyExistsError: a metric and a log line; the
\* record is neither appended nor failed
OnItemAlreadyExists(m, mid, idempotency_key) ==
    [m EXCEPT !.dups = @ \cup {idempotency_key}]

\* one iteration of the first pass: an envelope that does not parse, or
\* one S3 record (validate, key, map, claim, append)
FirstPass(s) ==
    /\ inv[s].pc = "firstpass"
    /\ Alone(s)
    /\ \E fault \in BOOLEAN :
        LET v == inv[s]
            mid == v.batch[v.ei]
            env == EnvelopeOf(mid)
        IN  IF env.body # "json" \/ env.Records = <<>>
            THEN /\ inv' = [inv EXCEPT ![s] =
                        Advance([v EXCEPT !.failed_message_ids = @ \cup {mid},
                                          !.malformed = @ \cup {mid}], env, TRUE)]
                 /\ UNCHANGED <<store, claimsLog>>
            ELSE LET raw == env.Records[v.ri]
                 IN  IF ~ModelValidateOk(raw)
                     THEN /\ inv' = [inv EXCEPT ![s] =
                                 Advance([v EXCEPT !.failed_message_ids = @ \cup {mid},
                                                   !.malformed = @ \cup {mid}], env, FALSE)]
                          /\ UNCHANGED <<store, claimsLog>>
                     ELSE LET parsed_record == ModelValidate(raw)
                              idempotency_key == RecordKey(parsed_record)
                              m == [v EXCEPT !.map = @ \cup {<<idempotency_key, mid>>}]
                          IN  IF fault
                              THEN /\ inv' = [inv EXCEPT ![s] =
                                          Advance([m EXCEPT !.failed_message_ids = @ \cup {mid},
                                                            !.idemErr = @ \cup {mid}], env, FALSE)]
                                   /\ UNCHANGED <<store, claimsLog>>
                              ELSE IF ClaimIsNew(store, idempotency_key)
                              THEN /\ store' = [store EXCEPT ![idempotency_key] =
                                                    now + idempotency_ttl_days]
                                   /\ claimsLog' = claimsLog \cup {<<idempotency_key, v.id, now>>}
                                   /\ inv' = [inv EXCEPT ![s] =
                                          Advance([m EXCEPT !.records = Append(@, parsed_record)],
                                                  env, FALSE)]
                              ELSE /\ inv' = [inv EXCEPT ![s] =
                                          Advance(OnItemAlreadyExists(m, mid, idempotency_key),
                                                  env, FALSE)]
                                   /\ UNCHANGED <<store, claimsLog>>
    /\ UNCHANGED <<now, ninv, uploads, breaker>>

\* the values DISTRIBUTION_BUCKET_NAME can have: load_from_env requires the
\* variable to be set, not to be non-empty
DistributionBuckets == {"dist-bucket", ""}

\* a faulty variant (nothing is refused), to show C27 depends on the
\* refusal of an empty record list
InputValidation_None(records, distribution_bucket) == "none"

\* the input validation of process_and_stage_batch: the exception it raises,
\* or "none"
InputValidation(records, distribution_bucket) ==
    IF records = <<>> THEN "InvalidS3EventError"
    ELSE IF distribution_bucket = "" THEN "ValidationError"
    ELSE "none"

\* the handler's test `if not records_to_process`
NoNewRecords(records_to_process) == records_to_process = <<>>

\* lines 502-504 (SQS route only), then _process_valid_records up to
\* tarfile.open, which writes the gzip header through the hashing wrapper
\* a faulty variant (one id is listed twice, as a list that collects an id
\* per failed record would), to show C39 depends on the set
build_partial_failure_response_Repeat(failed_message_ids) ==
    {q \in InjectiveSeqs(failed_message_ids, Cardinality(failed_message_ids)) :
        Range(q) = failed_message_ids}
    \cup {Append(q, q[1]) :
            q \in {r \in InjectiveSeqs(failed_message_ids,
                                        Cardinality(failed_message_ids)) :
                        Range(r) = failed_message_ids /\ r # <<>>}}

\* the lists the comprehension over the set can give: one itemIdentifier
\* per member, in the set's iteration order, which is not specified
build_partial_failure_response(failed_message_ids) ==
    {q \in InjectiveSeqs(failed_message_ids, Cardinality(failed_message_ids)) :
        Range(q) = failed_message_ids}

StartBundling(s) ==
    /\ inv[s].pc = "filtered"
    /\ Alone(s)
    /\ \E distribution_bucket \in DistributionBuckets :
        LET v == inv[s]
        IN  IF v.entry = "handler" /\ NoNewRecords(v.records)
            THEN \E failures \in build_partial_failure_response(v.failed_message_ids) :
                    inv' = [inv EXCEPT ![s] =
                        [v EXCEPT !.pc = "done", !.hresult = "response",
                                  !.response = v.failed_message_ids,
                                  !.batchItemFailures = failures]]
            ELSE IF InputValidation(v.records, distribution_bucket) # "none"
            \* raised before the try block of process_and_stage_batch
            THEN inv' = [inv EXCEPT ![s] =
                        [v EXCEPT !.pc = "returned",
                                  !.exc = InputValidation(v.records, distribution_bucket)]]
            ELSE inv' = [inv EXCEPT ![s] =
                        HashingWrite([v EXCEPT !.pc = "bundling", !.output_spool_file = "open"],
                                     <<Tok("gzhdr", 0, 0)>>)]
    /\ UNCHANGED <<store, now, ninv, claimsLog, uploads, breaker>>

\* one iteration of the record loop of create_tar_gz_bundle_stream
BundleRecord(s) ==
    /\ inv[s].pc = "bundling"
    /\ inv[s].stopKind = "none"
    /\ inv[s].idx <= Len(inv[s].records)
    /\ \E remaining_ms \in TimeSamples : \E o \in FetchOutcomes :
        inv' = [inv EXCEPT ![s] =
            LoopBody([inv[s] EXCEPT !.lowTimeAt =
                         IF @ = 0 /\ remaining_ms < timeout_guard_threshold_ms
                         THEN inv[s].idx ELSE @],
                     remaining_ms, o)]
    /\ UNCHANGED <<store, now, ninv, claimsLog, uploads, breaker>>

\* the loop ended (break or exhausted): the tar context exits and writes the
\* end-of-archive blocks and the gzip trailer through the wrapper; then
\* flush, hexdigest, seek(0), yield
Finalize(s) ==
    /\ inv[s].pc = "bundling"
    /\ inv[s].stopKind # "none" \/ inv[s].idx > Len(inv[s].records)
    /\ LET w == HashingWrite(inv[s], <<Tok("eof", 0, 0), Tok("gztrl", 0, 0)>>)
       IN  inv' = [inv EXCEPT ![s] =
               [w EXCEPT !.sha256_hash = Sha256(w.hashed),
                         !.spool_pos = 0,
                         !.pc = "yielded"]]
    /\ UNCHANGED <<store, now, ninv, claimsLog, uploads, breaker>>

\* a faulty variant (close() is passed on to the file), to show C35
\* depends on the override
HashingClose_ClosesFile(v) ==
    [v EXCEPT !.wrapper_closed = TRUE, !.output_spool_file = "closed"]

\* HashingFileWrapper.close: pass
HashingClose(v) == [v EXCEPT !.wrapper_closed = TRUE]

\* close() reaches the wrapper: the tar and gzip layers were given it as
\* their file object and are closed when the tar context exits
WrapperClose(s) ==
    /\ inv[s].pc = "yielded"
    /\ ~inv[s].wrapper_closed
    /\ inv' = [inv EXCEPT ![s] = HashingClose(inv[s])]
    /\ UNCHANGED <<store, now, ninv, claimsLog, uploads, breaker>>

\* the idempotency keys of the entries whose header is in the stream
EntryKeys(v, toks) == {RecordKey(v.records[i]) : i \in HeaderIdxs(toks)}

\* upload_gzipped_bundle inside the with block, then the rest of
\* process_and_stage_batch: remaining_records and the return, or the
\* wrapping of the upload error
Upload(s) ==
    /\ inv[s].pc = "yielded"
    /\ \E ok \in BOOLEAN :
        LET v == inv[s]
            bytes == SubSeq(v.spool, v.spool_pos + 1, Len(v.spool))
            u == [v EXCEPT !.uploadCalls = @ + 1,
                           !.uploadedBytes = bytes,
                           !.uploadedHash = v.sha256_hash]
        IN  IF ok
            THEN /\ inv' = [inv EXCEPT ![s] =
                        [u EXCEPT !.pc = "returned",
                                  \* the with block exits: the finally of the
                                  \* generator closes the spool file
                                  !.output_spool_file = "closed",
                                  !.remaining_records =
                                      SelectSeq(v.records,
                                          LAMBDA r : r \notin Range(v.processed_records))]]
                 /\ uploads' = uploads \cup {<<v.id, k>> : k \in EntryKeys(v, bytes)}
            ELSE /\ inv' = [inv EXCEPT ![s] =
                        Raise([u EXCEPT !.uploadFailed = TRUE],
                              BundleCreationErrorNew(TRUE))]
                 /\ UNCHANGED uploads
    /\ UNCHANGED <<store, now, ninv, claimsLog, breaker>>

\* _process_valid_records after process_and_stage_batch, and the handler's
\* lines 506-523: the ids of the response
ResponseIds(v) ==
    LET all_ids == GetMessageIdsForS3Records(v.records, v.map)
        handled == ProcessValidRecordsExcept(v.exc, all_ids)
    IN  IF v.exc = "none"
        THEN v.failed_message_ids \cup
             (IF v.remaining_records = <<>> THEN {}
              ELSE GetMessageIdsForS3Records(v.remaining_records, v.map))
        ELSE IF handled.caught
        THEN v.failed_message_ids \cup handled.ids
        ELSE all_ids

Respond(s) ==
    /\ inv[s].pc = "returned"
    /\ inv[s].entry = "handler"
    /\ Alone(s)
    /\ \E failures \in build_partial_failure_response(ResponseIds(inv[s])) :
          inv' = [inv EXCEPT ![s] =
              [inv[s] EXCEPT !.pc = "done", !.hresult = "response",
                             !.response = ResponseIds(inv[s]),
                             !.batchItemFailures = failures]]
    /\ UNCHANGED <<store, now, ninv, claimsLog, uploads, breaker>>

\* the handler returns to the Lambda runtime; the slot is free again
Return(s) ==
    /\ inv[s].pc = "done"
    /\ inv' = [inv EXCEPT ![s] = IdleInv]
    /\ UNCHANGED <<store, now, ninv, claimsLog, uploads, breaker>>

\* the values ENVIRONMENT can have (load_from_env takes any string)
Environments == {"prod", "TEST"}

\* str.lower on the values of Environments
Lower(environment) ==
    CASE environment = "TEST" -> "test"
      [] OTHER -> environment

\* a faulty variant (every environment is a test environment), to show C25
\* depends on the environment check
is_test_env_Always(environment) == TRUE

\* is_test_env = CONFIG.environment.lower() in {"dev", "test"}
is_test_env(environment) == Lower(environment) \in {"dev", "test"}

\* the `records` lists of the direct-invoke payloads
DirectPayloads == {<<>>, <<R1>>, <<RTraversal, R2>>}

ParseFailed == [ok |-> FALSE, records |-> <<>>]

RECURSIVE ParseAll(_)
ParseAll(raw_records) ==
    IF raw_records = <<>> THEN <<>>
    ELSE <<ModelValidate(Head(raw_records))>> \o ParseAll(Tail(raw_records))

\* a faulty variant (an invalid record is dropped, as on the SQS route), to
\* show C26 depends on the strict parse
StrictParse_SkipInvalid(raw_records) ==
    [ok |-> TRUE,
     records |-> ParseAll(SelectSeq(raw_records, LAMBDA r : ModelValidateOk(r)))]

\* [S3EventNotificationRecord.model_validate(r) for r in raw_records] inside
\* try / except pydantic.ValidationError: raise ValueError
StrictParse(raw_records) ==
    IF \E i \in DOMAIN raw_records : ~ModelValidateOk(raw_records[i])
    THEN ParseFailed
    ELSE [ok |-> TRUE, records |-> ParseAll(raw_records)]

\* handler(event, context) with event["e2e_test_direct_invoke"] set, up to the
\* call of _process_valid_records(records_to_process, {}, context)
InvokeDirect(s, environment, raw_records) ==
    /\ inv[s].pc = "idle"
    /\ Alone(s)
    /\ ninv < MaxInvocations
    /\ ninv' = ninv + 1
    /\ LET v == [IdleInv EXCEPT !.id = ninv + 1, !.entry = "direct",
                                !.environment = environment,
                                !.raw_records = raw_records, !.rep = "model"]
           parsed == StrictParse(raw_records)
       IN  inv' = [inv EXCEPT ![s] =
               IF ~is_test_env(environment)
               THEN [v EXCEPT !.pc = "done", !.hresult = "raised"]
               ELSE IF ~parsed.ok
               THEN [v EXCEPT !.pc = "done", !.hresult = "raised"]
               ELSE [v EXCEPT !.pc = "filtered", !.records = parsed.records]]
    /\ UNCHANGED <<store, now, claimsLog, uploads, breaker>>

\* the direct route after process_and_stage_batch: _process_valid_records
\* returns (its result is dropped) and the handler returns no failures, or
\* the exception no except clause matches leaves the handler
RespondDirect(s) ==
    /\ inv[s].pc = "returned"
    /\ inv[s].entry = "direct"
    /\ Alone(s)
    /\ LET v == inv[s]
       IN  inv' = [inv EXCEPT ![s] =
               IF v.exc = "none" \/ ProcessValidRecordsExcept(v.exc, {}).caught
               THEN [v EXCEPT !.pc = "done", !.hresult = "response", !.response = {}]
               ELSE [v EXCEPT !.pc = "done", !.hresult = "raised"]]
    /\ UNCHANGED <<store, now, ninv, claimsLog, uploads, breaker>>

\* a day passes between invocations
Tick ==
    /\ now < MaxClock
    /\ \A s \in Slots : inv[s].pc = "idle"
    /\ \E k \in IdemKeys : store[k] # 0
    /\ now' = now + 1
    /\ UNCHANGED <<store, inv, ninv, claimsLog, uploads, breaker>>

\* a faulty variant (the table deletes an item before its expiry), to show
\* C38 depends on the expiry
TtlSweep_Early(k) ==
    /\ store[k] # 0
    /\ store' = [store EXCEPT ![k] = 0]
    /\ UNCHANGED <<now, inv, ninv, claimsLog, uploads, breaker>>

\* the table's TTL deletes an expired item
TtlSweep(k) ==
    /\ store[k] # 0
    /\ store[k] <= now
    /\ store' = [store EXCEPT ![k] = 0]
    /\ UNCHANGED <<now, inv, ninv, claimsLog, uploads, breaker>>

Next ==
    \/ \E s \in Slots : \E b \in Batches : Invoke(s, b)
    \/ \E s \in Slots : FirstPass(s)
    \/ \E s \in Slots : StartBundling(s)
    \/ \E s \in Slots : BundleRecord(s)
    \/ \E s \in Slots : Finalize(s)
    \/ \E s \in Slots : Upload(s)
    \/ \E s \in Slots : Respond(s)
    \/ \E s \in Slots : \E environment \in Environments :
          \E raw_records \in DirectPayloads : InvokeDirect(s, environment, raw_records)
    \/ \E s \in Slots : RespondDirect(s)
    \/ \E s \in Slots : Return(s)
    \/ Tick
    \/ \E k \in IdemKeys : TtlSweep(k)

Spec == Init /\ [][Next]_vars

\* process_and_stage_batch(records, ...) called directly with dict records
CallCore(recs) ==
    /\ inv[1].pc = "idle"
    /\ ninv < MaxInvocations
    /\ ninv' = ninv + 1
    /\ inv' = [inv EXCEPT ![1] =
            HashingWrite([IdleInv EXCEPT !.id = ninv + 1, !.entry = "core",
                                         !.records = recs, !.rep = "dict",
                                         !.pc = "bundling",
                                         !.output_spool_file = "open"],
                         <<Tok("gzhdr", 0, 0)>>)]
    /\ UNCHANGED <<store, now, claimsLog, uploads, breaker>>

NextCore ==
    \/ \E recs \in CoreInputs : CallCore(recs)
    \/ BundleRecord(1)
    \/ Finalize(1)
    \/ WrapperClose(1)
    \/ Upload(1)

SpecCore == Init /\ [][NextCore]_vars

\* the circuit breaker on its own: a table without the item, a client per
\* caller, every interleaving of their requests
InitBreaker ==
    /\ store = [k \in IdemKeys |-> 0]
    /\ now = 0
    /\ inv = [s \in Slots |-> IdleInv]
    /\ ninv = 0
    /\ claimsLog = {}
    /\ uploads = {}
    /\ \E failure_threshold \in Thresholds :
          breaker = CircuitBreakerClient(failure_threshold)

NextBreaker ==
    \/ \E c \in Callers : \E op \in {"get_state", "record_failure"} : CallGetState(c, op)
    \/ \E c \in Callers : Refetch(c)
    \/ \E c \in Callers : UpdateItem(c)
    \/ \E c \in Callers : AddFailure(c)
    \/ \E c \in Callers : SetStateOpen(c)
    \/ \E c \in Callers : RecordSuccess(c)
    \/ BreakerTick

SpecBreaker == InitBreaker /\ [][NextBreaker]_vars


-----------------------------------------------------------------------------
(* Vocabulary of the properties.                                           *)

\* the handler has built its response and not yet returned it
Responded(s) == inv[s].pc = "done" /\ inv[s].hresult = "response"

\* process_and_stage_batch has returned its three values
ReturnedNormally(s) == inv[s].pc = "returned" /\ inv[s].exc = "none"

\* the idempotency keys of the valid records of an envelope
KeysOfEnvelope(mid) ==
    {RecordKey(ModelValidate(raw)) :
        raw \in {x \in Range(EnvelopeOf(mid).Records) : ModelValidateOk(x)}}

\* envelope mid holds a record that (by idempotency key) is in recs
HasRecordIn(mid, recs) ==
    \E i \in DOMAIN recs : RecordKey(recs[i]) \in KeysOfEnvelope(mid)

\* the positions of the records that have a header in the stream
PositionsOf(v, recs) == {i \in DOMAIN v.records : v.records[i] \in Range(recs)}

-----------------------------------------------------------------------------
C2_ExactlyOnceUnderRetry ==
    \A s \in Slots :
        (/\ Responded(s)
         /\ inv[s].idemErr = {}
         /\ inv[s].exc = "none"
         /\ \A t \in Slots \ {s} : inv[t].pc = "idle")
        => \A mid \in Range(inv[s].batch) \ inv[s].response :
              \A k \in KeysOfEnvelope(mid) :
                  Cardinality({u \in uploads : u[2] = k}) = 1

(* C3. After process_and_stage_batch returns normally, the survivors are   *)
(* partitioned into processed_records and remaining_records, and           *)
(* processed_records holds exactly the records that have an entry in the   *)
(* uploaded archive.                                                       *)
C3_ProcessedPartition ==
    \A s \in Slots : ReturnedNormally(s) =>
        LET v == inv[s]
            P == Range(v.processed_records)
            R == Range(v.remaining_records)
        IN  /\ P \cup R = Range(v.records)
            /\ P \cap R = {}
            /\ PositionsOf(v, v.processed_records) = HeaderIdxs(v.uploadedBytes)

(* C4. Failure attribution is complete: every response lists every         *)
(* envelope that failed parsing or validation, every envelope whose        *)
(* idempotency claim raised, and every envelope with a record among the    *)
(* records left unprocessed (remaining_records, or all the survivors when  *)
(* the bundling step ended with an error).                                 *)
C4_AttributionComplete ==
    \A s \in Slots : Responded(s) =>
        LET v == inv[s]
            left == IF v.exc = "none" THEN v.remaining_records ELSE v.records
        IN  /\ v.malformed \subseteq v.response
            /\ v.idemErr \subseteq v.response
            /\ \A mid \in Range(v.batch) : HasRecordIn(mid, left) => mid \in v.response

C6_GracefulStop ==
    \A s \in Slots :
        (inv[s].stopKind # "none" /\ inv[s].pc \in {"yielded", "returned"}) =>
            LET v == inv[s]
            IN  /\ ValidArchive(v.spool)
                /\ HeaderIdxs(v.spool) = PositionsOf(v, v.processed_records)
                /\ Range(v.processed_records) # Range(v.records)
                /\ v.pc = "returned" =>
                      (v.uploadCalls = 1 /\ v.uploadedBytes = v.spool)

\* one envelope per record: what record_to_message_id_map holds when every
\* record of the list came in an envelope of its own
EnvelopePerRecord(recs) == {<<RecordKey(recs[i]), i>> : i \in DOMAIN recs}

C8_TimeBudget ==
    \A s \in Slots :
        inv[s].lowTimeAt # 0 =>
            \A j \in inv[s].lowTimeAt .. Len(inv[s].records) : j \notin inv[s].fetched

\* the time was low at the check of a later record, after earlier records
\* had been fetched, and records were left
C8_Witness ==
    \E s \in Slots :
        /\ inv[s].lowTimeAt >= 2
        /\ inv[s].lowTimeAt < Len(inv[s].records)
        /\ inv[s].fetched # {}
        /\ inv[s].pc = "returned"

(* C9. Hash soundness: the digest handed to the upload is the SHA-256 of   *)
(* the bytes the upload reads, and these are the whole finalized archive,  *)
(* from offset 0 up to the gzip trailer.                                   *)
C9_HashSoundness ==
    \A s \in Slots :
        inv[s].uploadCalls > 0 =>
            /\ inv[s].uploadedHash = Sha256(inv[s].uploadedBytes)
            /\ inv[s].uploadedBytes = inv[s].spool
            /\ inv[s].spool[Len(inv[s].spool)] = Tok("gztrl", 0, 0)

\* an archive of two entries was handed to the upload
C9_Witness ==
    \E s \in Slots :
        /\ inv[s].uploadCalls = 1
        /\ Len(inv[s].processed_records) >= 2

\* the buffered records whose streamed byte count differed from the declared
DeclaredMismatch(v) ==
    {p[1] : p \in {q \in v.streamed :
                      /\ v.records[q[1]].size < spool_file_max_size_bytes
                      /\ q[2] # v.records[q[1]].size}}

(* C10. A record below the spool threshold whose streamed byte count       *)
(* differs from its declared size has no entry in the archive and is not   *)
(* in processed_records.                                                   *)
C10_SmallFileMismatch ==
    \A s \in Slots : \A i \in DeclaredMismatch(inv[s]) :
        /\ i \notin HeaderIdxs(inv[s].spool)
        /\ inv[s].records[i] \notin Range(inv[s].processed_records)

\* a batch with a mismatching small record and a record that was written
\* was uploaded
C10_Witness ==
    \E s \in Slots :
        /\ DeclaredMismatch(inv[s]) # {}
        /\ ReturnedNormally(s)
        /\ inv[s].processed_records # <<>>

-----------------------------------------------------------------------------
\* tarinfo.name of the entry of the record at position i: its safe_key
EntryName(v, i) == core_sanitize_s3_key(v.records[i].key)

\* the key has a `..` path segment
HasDotDotSegment(key) == \E i \in DOMAIN KeyParts(key) : KeyParts(key)[i] = ".."

\* the positions whose fetch raised and was skipped: fetched, nothing streamed
NotFoundAt(v) == {i \in v.fetched : \A p \in v.streamed : p[1] # i}

\* the envelope was parsed and one of its records fails validation
ValidationFailed(mid) ==
    /\ EnvelopeOf(mid).body = "json"
    /\ \E raw \in Range(EnvelopeOf(mid).Records) : ~ModelValidateOk(raw)

\* the body is not JSON, or it has no non-empty Records list
Unparsable(mid) ==
    EnvelopeOf(mid).body # "json" \/ EnvelopeOf(mid).Records = <<>>

(* C11. Every entry of an uploaded archive is complete and belongs to a    *)
(* processed record: each header is followed by exactly its size in        *)
(* content bytes, and every header and every content byte of the archive   *)
(* belongs to a record of processed_records (a skipped record leaves       *)
(* neither a header nor partial bytes).                                    *)
C11_EntriesComplete ==
    \A s \in Slots :
        (inv[s].uploadCalls > 0 /\ ~inv[s].uploadFailed) =>
            LET v == inv[s]
                toks == v.uploadedBytes
            IN  \A p \in DOMAIN toks :
                    /\ toks[p][1] \in {"hdr", "data", "pad"} =>
                          v.records[toks[p][2]] \in Range(v.processed_records)
                    /\ (toks[p][1] = "hdr" /\ toks[p][3] > 0) =>
                          /\ p < Len(toks)
                          /\ toks[p + 1] = Tok("data", toks[p][2], toks[p][3])

(* C12. No object whose key has a `..` path segment is fetched, and none   *)
(* has a header or bytes in the spooled or the uploaded archive.           *)
C12_TraversalNeverLeaves ==
    \A s \in Slots : \A i \in DOMAIN inv[s].records :
        HasDotDotSegment(inv[s].records[i].original_key) =>
            /\ i \notin inv[s].fetched
            /\ i \notin HeaderIdxs(inv[s].spool)
            /\ i \notin HeaderIdxs(inv[s].uploadedBytes)

(* C13. Every entry name of the archive is a path sanitize_s3_key accepts: *)
(* no empty, `.` or `..` component and no control, DEL or format           *)
(* character.                                                              *)
C13_EntryNamesSanitized ==
    \A s \in Slots : \A i \in HeaderIdxs(inv[s].spool) :
        /\ KeySanitizerAccepts(EntryName(inv[s], i),
                               CharClasses(inv[s].records[i].key))
        /\ \A j \in DOMAIN EntryName(inv[s], i) :
              EntryName(inv[s], i)[j] \notin {"", ".", ".."}

(* C14. Within one archive all entry names are distinct.                   *)
C14_EntryNamesDistinct ==
    \A s \in Slots :
        \A i \in HeaderIdxs(inv[s].spool) : \A j \in HeaderIdxs(inv[s].spool) :
            i # j => EntryName(inv[s], i) # EntryName(inv[s], j)

(* C15. A malformed envelope fails as a whole: when a record of an         *)
(* envelope fails validation, the invocation claims no record that only    *)
(* this envelope of the batch holds, hands none to the bundling step, and  *)
(* its response lists the envelope.                                        *)
C15_MalformedFailsWhole ==
    \A s \in Slots : \A mid \in Range(inv[s].batch) :
        ValidationFailed(mid) =>
            /\ \A k \in KeysOfEnvelope(mid) :
                  (\A other \in Range(inv[s].batch) \ {mid} :
                       k \notin KeysOfEnvelope(other))
                  => /\ \A e \in claimsLog : ~(e[1] = k /\ e[2] = inv[s].id)
                     /\ \A i \in DOMAIN inv[s].records :
                           RecordKey(inv[s].records[i]) # k
            /\ Responded(s) => mid \in inv[s].response

(* C16. When an envelope of the batch has a body that is not JSON or has   *)
(* no non-empty Records list, the handler returns a response, and the      *)
(* response lists that envelope.                                           *)
C16_UnparsableEnvelope ==
    \A s \in Slots :
        (inv[s].pc = "done" /\ inv[s].entry = "handler") =>
            \A mid \in Range(inv[s].batch) :
                Unparsable(mid) =>
                    /\ inv[s].hresult = "response"
                    /\ mid \in inv[s].response

(* C17. When process_and_stage_batch ends with a non-retryable error, the  *)
(* response lists every envelope that contributed a survivor.              *)
C17_NonRetryableFailsAll ==
    \A s \in Slots :
        (Responded(s) /\ inv[s].exc # "none" /\ ~is_retryable_error(inv[s].exc)) =>
            GetMessageIdsForS3Records(inv[s].records, inv[s].map)
                \subseteq inv[s].response

(* C18. When upload_gzipped_bundle raised, process_and_stage_batch raises  *)
(* a retryable BundleCreationError, and the handler returns a response     *)
(* that lists every envelope that contributed a survivor.                  *)
C18_UploadFailure ==
    \A s \in Slots :
        (inv[s].uploadFailed /\ inv[s].pc \in {"returned", "done"}) =>
            /\ inv[s].exc = "BundleCreationError"
            /\ is_retryable_error(inv[s].exc)
            /\ inv[s].pc = "done" =>
                  /\ inv[s].hresult = "response"
                  /\ GetMessageIdsForS3Records(inv[s].records, inv[s].map)
                         \subseteq inv[s].response

(* C19. A record whose fetch raised object-not-found is skipped: it has no *)
(* entry in the archive, the archive with the other records is uploaded,   *)
(* and the handler's mapping of the result does not put the envelope of    *)
(* the missing record into batchItemFailures.                              *)
C19_ObjectNotFoundSkipped ==
    \A s \in Slots : ReturnedNormally(s) =>
        \A i \in NotFoundAt(inv[s]) :
            /\ i \notin HeaderIdxs(inv[s].uploadedBytes)
            /\ inv[s].uploadCalls = 1
            /\ i \notin ResponseIds(
                   [inv[s] EXCEPT !.map = EnvelopePerRecord(inv[s].records)])

RECURSIVE total_size_bytes(_)
total_size_bytes(records_to_process) ==
    IF records_to_process = <<>> THEN 0
    ELSE Head(records_to_process).size + total_size_bytes(Tail(records_to_process))

(* C22. Input-size pre-flight: when the declared sizes of the survivors of *)
(* a handler invocation add up to more than max_bundle_input_bytes, no     *)
(* object is fetched, the upload is not invoked, the bundling step ends    *)
(* with BatchTooLargeError, and every envelope that contributed a survivor *)
(* is in the response.                                                     *)
C22_InputPreflight ==
    \A s \in Slots :
        LET v == inv[s]
        IN  (/\ v.entry = "handler"
             /\ v.pc \notin {"idle", "firstpass"}
             /\ total_size_bytes(v.records) > max_bundle_input_bytes) =>
                /\ v.fetched = {}
                /\ v.uploadCalls = 0
                /\ v.pc \in {"returned", "done"} => v.exc = "BatchTooLargeError"
                /\ Responded(s) =>
                      GetMessageIdsForS3Records(v.records, v.map) \subseteq v.response

(* C24. The conditional put of the idempotency store: a claim is NEW only  *)
(* when no record with the key exists, and then the record is stored with  *)
(* the expiry now + TTL; a claim on an existing key is answered as a       *)
(* duplicate and leaves the stored record, expiry included, unchanged      *)
(* (only the TTL sweep removes a record); a claim that ends in another     *)
(* store error stores nothing, and its record is not taken as new.         *)
C24_ConditionalPut ==
    [][/\ \A k \in IdemKeys :
            /\ (store[k] # 0 /\ store'[k] # store[k]) =>
                  (store'[k] = 0 /\ store[k] <= now /\ claimsLog' = claimsLog)
            /\ (store[k] = 0 /\ store'[k] # 0) =>
                  /\ store'[k] = now + idempotency_ttl_days
                  /\ \E c \in claimsLog' \ claimsLog : c[1] = k /\ c[3] = now
       /\ \A c \in claimsLog' \ claimsLog :
            /\ store[c[1]] = 0
            /\ store'[c[1]] = now + idempotency_ttl_days
       /\ \A s \in Slots :
            /\ inv'[s].pc = "firstpass" /\ inv[s].pc = "firstpass"
                  /\ Len(inv'[s].records) > Len(inv[s].records)
                  => \E c \in claimsLog' \ claimsLog :
                        c[1] = RecordKey(inv'[s].records[Len(inv'[s].records)])
            /\ inv'[s].idemErr \ inv[s].idemErr # {} =>
                  /\ store' = store
                  /\ claimsLog' = claimsLog
                  /\ inv'[s].records = inv[s].records
            /\ \A k \in inv'[s].dups \ inv[s].dups :
                  /\ store[k] # 0
                  /\ store' = store
                  /\ inv'[s].records = inv[s].records]_vars

\* a key claimed on an earlier day was found present by a later claim, and
\* the stored record still has the expiry of the first claim
C24_Witness ==
    \E s \in Slots : \E k \in inv[s].dups : \E c \in claimsLog :
        /\ c[1] = k
        /\ c[2] # inv[s].id
        /\ c[3] < now
        /\ store[k] = c[3] + idempotency_ttl_days
        /\ inv[s].idemErr # {}

(* C25. A direct-invoke payload received when ENVIRONMENT is neither dev   *)
(* nor test (compared in lower case) is refused: the handler raises, and   *)
(* the invocation claims nothing, fetches no object and invokes no upload. *)
C25_DirectInvokeRefused ==
    \A s \in Slots :
        LET v == inv[s]
        IN  (v.entry = "direct" /\ Lower(v.environment) \notin {"dev", "test"}) =>
                /\ v.pc = "done"
                /\ v.hresult = "raised"
                /\ v.records = <<>>
                /\ v.fetched = {}
                /\ v.uploadCalls = 0
                /\ \A c \in claimsLog : c[2] # v.id
                /\ \A u \in uploads : u[1] # v.id

\* a direct invocation with a non-empty payload was refused in prod
C25_Witness ==
    \E s \in Slots :
        /\ inv[s].entry = "direct"
        /\ inv[s].environment = "prod"
        /\ inv[s].raw_records # <<>>
        /\ inv[s].hresult = "raised"

C27_UploadOnce ==
    \A s \in Slots :
        LET v == inv[s]
        IN  v.entry \in {"handler", "direct"} =>
                /\ v.uploadCalls <= 1
                /\ v.pc \in {"idle", "firstpass", "filtered", "bundling", "yielded"}
                      => v.uploadCalls = 0
                /\ v.uploadCalls > 0 =>
                      /\ v.records # <<>>
                      /\ v.stopKind # "none" \/ v.idx > Len(v.records)
                      /\ v.uploadedBytes = v.spool
                      /\ Len(v.spool) >= 3
                      /\ v.spool[1] = Tok("gzhdr", 0, 0)
                      /\ v.spool[Len(v.spool) - 1] = Tok("eof", 0, 0)
                      /\ v.spool[Len(v.spool)] = Tok("gztrl", 0, 0)

\* a handler invocation on the SQS route invoked the upload and responded
C27_Witness ==
    \E s \in Slots :
        /\ inv[s].entry = "handler"
        /\ Responded(s)
        /\ inv[s].uploadCalls = 1
        /\ ~inv[s].uploadFailed

-----------------------------------------------------------------------------
(* security.sanitize_s3_key, symbol by symbol. A key is a sequence of       *)
(* symbols; each symbol stands for the characters it spells.                *)

MaxKeyLen == 3

\* "a": a letter; "nul": the three letters of a device name; "%2e", "%2f":
\* a percent-encoded dot and slash; "%252e": a dot encoded twice; "<C0>":
\* U+0001; "<DEL>": U+007F; "<Cf>": U+200B (zero width space, category Cf)
Symbols ==
    {"a", ".", "/", "\\", ":", " ", "nul", "%2e", "%2f", "%252e",
     "<C0>", "<DEL>", "<Cf>"}

\* keys of the unit tests that are longer than MaxKeyLen:
\* C:\\server\share\file, C:D:file, A:B:C:file, folder\ file, C:D:..
NamedKeys ==
    {<<"a", ":", "\\", "\\", "a", "\\", "a", "\\", "a">>,
     <<"a", ":", "a", ":", "a">>,
     <<"a", ":", "a", ":", "a", ":", "a">>,
     <<"a", "\\", " ", "a">>,
     <<"a", ":", "a", ":", ".", ".">>}

SanitizerKeys ==
    UNION {[1..n -> Symbols] : n \in 1..MaxKeyLen} \cup NamedKeys

\* raise ValidationError(..., error_code=code)
SanReject(code) == [ok |-> FALSE, path |-> <<>>, error_code |-> code]

\* return safe_path
SanAccept(safe_path) == [ok |-> TRUE, path |-> safe_path, error_code |-> "none"]

\* str.split("/")
RECURSIVE SplitFrom(_, _, _, _)
SplitFrom(key, i, cur, acc) ==
    IF i > Len(key) THEN Append(acc, cur)
    ELSE IF key[i] = "/" THEN SplitFrom(key, i + 1, <<>>, Append(acc, cur))
    ELSE SplitFrom(key, i + 1, Append(cur, key[i]), acc)

Split(key) == SplitFrom(key, 1, <<>>, <<>>)

\* "/".join(parts)
RECURSIVE Join(_)
Join(parts) ==
    IF parts = <<>> THEN <<>>
    ELSE IF Len(parts) = 1 THEN parts[1]
    ELSE parts[1] \o <<"/">> \o Join(Tail(parts))

\* s == s.strip(): no whitespace at either end
IsStripped(s) == s = <<>> \/ (s[1] # " " /\ s[Len(s)] # " ")

\* _DRIVE_PREFIX = re.compile(r"^[a-zA-Z]:")
HasDrivePrefix(key) == Len(key) >= 2 /\ key[1] = "a" /\ key[2] = ":"

\* _DRIVE_PREFIX.sub("", key): the prefix is removed once
RemoveDrivePrefix(key) ==
    IF HasDrivePrefix(key) THEN SubSeq(key, 3, Len(key)) ELSE key

\* str.replace("\\", "/")
ToPosix(key) == [i \in DOMAIN key |-> IF key[i] = "\\" THEN "/" ELSE key[i]]

\* str.upper()
Upper(c) == CASE c = "a" -> "A" [] c = "nul" -> "NUL" [] OTHER -> c

\* part.split(".", 1)[0]
RECURSIVE BaseNameFrom(_, _)
BaseNameFrom(part, i) ==
    IF i > Len(part) \/ part[i] = "." THEN SubSeq(part, 1, i - 1)
    ELSE BaseNameFrom(part, i + 1)

\* base_name in _WINDOWS_DEVICE_NAMES
IsDeviceName(part) ==
    LET base_name == BaseNameFrom(part, 1)
    IN  [i \in DOMAIN base_name |-> Upper(base_name[i])] = <<"NUL">>

\* urllib.parse.unquote, one pass
Unquote(key) ==
    [i \in DOMAIN key |->
        CASE key[i] = "%2e" -> "."
          [] key[i] = "%2f" -> "/"
          [] key[i] = "%252e" -> "%2e"
          [] OTHER -> key[i]]

max_iterations == 5

\* the decoding loop: until stable, at most max_iterations passes
RECURSIVE UnquoteLoop(_, _)
UnquoteLoop(decoded_key, n) ==
    IF n = 0 \/ Unquote(decoded_key) = decoded_key THEN decoded_key
    ELSE UnquoteLoop(Unquote(decoded_key), n - 1)

\* any(part == ".." for part in s.split("/"))
HasDotDotPart(s) == \E i \in DOMAIN Split(s) : Split(s)[i] = <<".", ".">>

\* str.count("//"): occurrences that do not overlap
RECURSIVE CountDoubleSlash(_, _)
CountDoubleSlash(s, i) ==
    IF i >= Len(s) THEN 0
    ELSE IF s[i] = "/" /\ s[i + 1] = "/" THEN 1 + CountDoubleSlash(s, i + 2)
    ELSE CountDoubleSlash(s, i + 1)

StartsWith2(s) == Len(s) >= 2 /\ s[1] = "/" /\ s[2] = "/"

StartsWith3(s) == Len(s) >= 3 /\ s[1] = "/" /\ s[2] = "/" /\ s[3] = "/"

\* [p for p in parts if p and p != "."]
NamedParts(parts) == SelectSeq(parts, LAMBDA p : p # <<>> /\ p # <<".">>)

\* str(PurePosixPath(s)): empty and "." components dropped, one leading
\* slash kept, exactly two leading slashes kept, "." for the empty path
PurePosixPathStr(s) ==
    LET root == IF StartsWith2(s) /\ ~StartsWith3(s) THEN <<"/", "/">>
                ELSE IF s # <<>> /\ s[1] = "/" THEN <<"/">>
                ELSE <<>>
        body == Join(NamedParts(Split(s)))
    IN  IF root = <<>> /\ body = <<>> THEN <<".">> ELSE root \o body

\* while safe_path.startswith("/"): safe_path = safe_path[1:]
RECURSIVE StripLeadingSlashes(_)
StripLeadingSlashes(safe_path) ==
    IF safe_path # <<>> /\ safe_path[1] = "/"
    THEN StripLeadingSlashes(Tail(safe_path))
    ELSE safe_path

\* the checks in the order of the code
security_sanitize_s3_key(key) ==
    LET key_posix == ToPosix(RemoveDrivePrefix(key))
        decoded_key == UnquoteLoop(key_posix, max_iterations)
        is_unc_path == /\ HasDrivePrefix(key)
                       /\ StartsWith2(key_posix)
                       /\ ~StartsWith3(key_posix)
                       /\ CountDoubleSlash(key_posix, 1) = 1
        unc_parts == NamedParts(Split(SubSeq(key_posix, 3, Len(key_posix))))
        normalized == PurePosixPathStr(key_posix)
        safe_path == IF is_unc_path THEN <<"/", "/">> \o Join(unc_parts)
                     ELSE StripLeadingSlashes(normalized)
    IN  IF \E i \in DOMAIN key : key[i] \in {"<C0>", "<DEL>"}
        THEN SanReject("INVALID_S3_KEY_FORMAT")
        ELSE IF \E i \in DOMAIN key : key[i] = "<Cf>"
        THEN SanReject("INVALID_S3_KEY_FORMAT")
        ELSE IF ~IsStripped(key) \/ \E i \in DOMAIN Split(key) : ~IsStripped(Split(key)[i])
        THEN SanReject("INVALID_S3_KEY_FORMAT")
        ELSE IF \E i \in DOMAIN Split(key_posix) :
                    Split(key_posix)[i] # <<>> /\ IsDeviceName(Split(key_posix)[i])
        THEN SanReject("UNSAFE_S3_KEY_PATH")
        ELSE IF decoded_key # key_posix /\ HasDotDotPart(ToPosix(decoded_key))
        THEN SanReject("UNSAFE_S3_KEY_PATH")
        ELSE IF HasDotDotPart(key_posix)
        THEN SanReject("UNSAFE_S3_KEY_PATH")
        ELSE IF is_unc_path /\ Len(unc_parts) < 2
        THEN SanReject("UNSAFE_S3_KEY_PATH")
        ELSE IF ~is_unc_path /\ normalized = <<"/">>
        THEN SanReject("UNSAFE_S3_KEY_PATH")
        ELSE IF safe_path \in {<<>>, <<".">>, <<"/", "/">>}
        THEN SanReject("UNSAFE_S3_KEY_PATH")
        ELSE SanAccept(safe_path)

\* one call of a function on its own, in the record of slot 1
CallState(c) ==
    [s \in Slots |-> IF s = 1 THEN [IdleInv EXCEPT !.call = c] ELSE IdleInv]

\* sanitize_s3_key(key)
SanitizeCall ==
    /\ inv[1].call.fn = "sanitize_s3_key"
    /\ inv[1].call.done = 0
    /\ inv' = CallState([inv[1].call EXCEPT
                            !.out = security_sanitize_s3_key(inv[1].call.key),
                            !.done = 1])
    /\ UNCHANGED <<store, now, ninv, claimsLog, uploads, breaker>>

\* sanitize_s3_key(sanitize_s3_key(key)), when the first call returned
SanitizeAgain ==
    /\ inv[1].call.fn = "sanitize_s3_key"
    /\ inv[1].call.done = 1
    /\ inv[1].call.out.ok
    /\ inv' = CallState([inv[1].call EXCEPT
                            !.again = security_sanitize_s3_key(inv[1].call.out.path),
                            !.done = 2])
    /\ UNCHANGED <<store, now, ninv, claimsLog, uploads, breaker>>

-----------------------------------------------------------------------------
(* app._make_idempotency_key, character by character.                       *)

\* object keys: the two keys of the handler model, and keys with the
\* characters json.dumps escapes and quote encodes
IdemKeyStrings == {"a.bin", "d/b.log", "a", "\"", "a\"", "\\", "\\\"", "%22"}

\* versionId: absent, empty, or a version; one version equals a sequencer
IdemVersions == {NoValue, "", "v1", "000A"}

IdemSequencers == {"000A", "000B", "v1"}

IdemBuckets == {"src", "other"}

IdemSizes == {11, 12}

\* the characters of the strings above
Chars(s) ==
    CASE s = "a.bin" -> <<"a", ".", "b", "i", "n">>
      [] s = "d/b.log" -> <<"d", "/", "b", ".", "l", "o", "g">>
      [] s = "a" -> <<"a">>
      [] s = "\"" -> <<"\"">>
      [] s = "a\"" -> <<"a", "\"">>
      [] s = "\\" -> <<"\\">>
      [] s = "\\\"" -> <<"\\", "\"">>
      [] s = "%22" -> <<"%", "2", "2">>
      [] s = "" -> <<>>
      [] s = "v1" -> <<"v", "1">>
      [] s = "000A" -> <<"0", "0", "0", "A">>
      [] s = "000B" -> <<"0", "0", "0", "B">>

\* json.dumps of a string: quotes around it, `"` and `\` escaped
RECURSIVE JsonEscape(_)
JsonEscape(chars) ==
    IF chars = <<>> THEN <<>>
    ELSE (IF Head(chars) \in {"\"", "\\"} THEN <<"\\", Head(chars)>> ELSE <<Head(chars)>>)
         \o JsonEscape(Tail(chars))

\* json.dumps of a value: null for None
JsonValue(v) ==
    IF v = NoValue THEN <<"n", "u", "l", "l">>
    ELSE <<"\"">> \o JsonEscape(Chars(v)) \o <<"\"">>

\* json.dumps({"k": key, "u": unique_part}, separators=(",", ":"))
JsonDumps(key, unique_part) ==
    <<"{", "\"", "k", "\"", ":">> \o JsonValue(key)
        \o <<",", "\"", "u", "\"", ":">> \o JsonValue(unique_part) \o <<"}">>

\* urllib.parse.quote(raw, safe=""): letters, digits and _ . - ~ are kept,
\* every other character becomes %XX
QuoteChar(c) ==
    CASE c = "\"" -> <<"%", "2", "2">>
      [] c = "%" -> <<"%", "2", "5">>
      [] c = "," -> <<"%", "2", "C">>
      [] c = "/" -> <<"%", "2", "F">>
      [] c = ":" -> <<"%", "3", "A">>
      [] c = "\\" -> <<"%", "5", "C">>
      [] c = "{" -> <<"%", "7", "B">>
      [] c = "}" -> <<"%", "7", "D">>
      [] OTHER -> <<c>>

RECURSIVE Quote(_)
Quote(raw) == IF raw = <<>> THEN <<>> ELSE QuoteChar(Head(raw)) \o Quote(Tail(raw))

\* a faulty variant (the sequencer is never used), to show C23 depends on
\* the fallback to the sequencer
UniquePart_VersionOnly(version, sequencer) == version

\* unique_part = version or sequencer
UniquePart(version, sequencer) ==
    IF version \in {NoValue, ""} THEN sequencer ELSE version

make_idempotency_key(key, version, sequencer) ==
    Quote(JsonDumps(key, UniquePart(version, sequencer)))

\* the records _make_idempotency_key is called for (app.py 429-437)
IdemRecords ==
    {[bucket |-> b, original_key |-> k, size |-> sz, version_id |-> v, sequencer |-> q] :
        b \in IdemBuckets, k \in IdemKeyStrings, sz \in IdemSizes,
        v \in IdemVersions, q \in IdemSequencers}

\* _make_idempotency_key(original_s3_key, s3_version, s3_sequencer)
MakeKeyCall ==
    /\ inv[1].call.fn = "_make_idempotency_key"
    /\ inv[1].call.done = 0
    /\ LET r == inv[1].call.rec[1]
       IN  inv' = CallState([inv[1].call EXCEPT
                    !.idem = make_idempotency_key(r.original_key, r.version_id, r.sequencer),
                    !.done = 1])
    /\ UNCHANGED <<store, now, ninv, claimsLog, uploads, breaker>>

\* the functions called on their own: the argument is drawn at the start
InitFunctions ==
    /\ store = [k \in IdemKeys |-> 0]
    /\ now = 0
    /\ ninv = 0
    /\ claimsLog = {}
    /\ uploads = {}
    /\ breaker = CircuitBreakerClient(2)
    /\ \/ \E key \in SanitizerKeys :
            inv = CallState([IdleInv.call EXCEPT !.fn = "sanitize_s3_key", !.key = key])
       \/ \E r \in IdemRecords :
            inv = CallState([IdleInv.call EXCEPT !.fn = "_make_idempotency_key",
                                                 !.rec = <<r>>])

NextFunctions ==
    \/ SanitizeCall
    \/ SanitizeAgain
    \/ MakeKeyCall

SpecFunctions == InitFunctions /\ [][NextFunctions]_vars

(* C23. The idempotency key is a function of the pair (original_key,       *)
(* version_id if present and non-empty, otherwise sequencer) only: two     *)
(* records get the same key exactly when they have the same pair, so       *)
(* records that differ only in bucket or size share a key, and the same    *)
(* object key with a new version (or, without version, a new sequencer)    *)
(* gets another key.                                                       *)
C23_IdempotencyKey ==
    (inv[1].call.fn = "_make_idempotency_key" /\ inv[1].call.done = 1) =>
        LET r == inv[1].call.rec[1]
        IN  \A r2 \in IdemRecords :
                (make_idempotency_key(r2.original_key, r2.version_id, r2.sequencer)
                    = inv[1].call.idem)
                <=> (MakeIdempotencyKey(r2.original_key, r2.version_id, r2.sequencer)
                        = MakeIdempotencyKey(r.original_key, r.version_id, r.sequencer))

\* the key was computed for a record without version; a record of another
\* bucket and size has the same key, and the same object key with another
\* sequencer has a different one
C23_Witness ==
    /\ inv[1].call.fn = "_make_idempotency_key"
    /\ inv[1].call.done = 1
    /\ LET r == inv[1].call.rec[1]
       IN  /\ r.version_id = NoValue
           /\ r.original_key = "\\\""
           /\ \E r2 \in IdemRecords :
                 /\ r2.bucket # r.bucket /\ r2.size # r.size
                 /\ make_idempotency_key(r2.original_key, r2.version_id, r2.sequencer)
                       = inv[1].call.idem
           /\ \E r2 \in IdemRecords :
                 /\ r2.original_key = r.original_key
                 /\ r2.version_id = NoValue
                 /\ r2.sequencer # r.sequencer
                 /\ make_idempotency_key(r2.original_key, r2.version_id, r2.sequencer)
                       # inv[1].call.idem

\* the segments of a key: what stands between separators (`/` or `\`) after
\* the drive prefix
Segments(key) == Split(ToPosix(RemoveDrivePrefix(key)))

\* a `..` segment, written plainly or percent-encoded
HasTraversalSegment(key) ==
    \/ \E i \in DOMAIN Segments(key) : Segments(key)[i] = <<".", ".">>
    \/ HasDotDotPart(ToPosix(UnquoteLoop(ToPosix(RemoveDrivePrefix(key)), max_iterations)))

\* a C0, DEL or Cf code point
HasForbiddenCodePoint(key) == \E i \in DOMAIN key : key[i] \in {"<C0>", "<DEL>", "<Cf>"}

\* a segment whose base name is a Windows device name
HasDeviceSegment(key) ==
    \E i \in DOMAIN Segments(key) : Segments(key)[i] # <<>> /\ IsDeviceName(Segments(key)[i])

\* a segment that starts or ends with whitespace
HasWhitespaceSegment(key) == \E i \in DOMAIN Segments(key) : ~IsStripped(Segments(key)[i])

(* C28. Sanitizer refusal set: sanitize_s3_key rejects every key that has  *)
(* a `..` segment (between `/` or `\` separators, plain or percent-        *)
(* encoded, also after a drive letter), a C0, DEL or Cf code point, a      *)
(* Windows device base name in a segment, or a segment with leading or     *)
(* trailing whitespace.                                                    *)
C28_RefusalSet ==
    (/\ inv[1].call.fn = "sanitize_s3_key"
     /\ inv[1].call.done >= 1
     /\ \/ HasTraversalSegment(inv[1].call.key)
        \/ HasForbiddenCodePoint(inv[1].call.key)
        \/ HasDeviceSegment(inv[1].call.key)
        \/ HasWhitespaceSegment(inv[1].call.key))
    => ~inv[1].call.out.ok

(* C29. Whenever sanitize_s3_key accepts a key, the path it returns is a   *)
(* safe relative path: not empty, not starting with `/`, with no backslash *)
(* and no empty, `.` or `..` component.                                    *)
C29_SafeRelativePath ==
    (/\ inv[1].call.fn = "sanitize_s3_key"
     /\ inv[1].call.done >= 1
     /\ inv[1].call.out.ok)
    => LET safe_path == inv[1].call.out.path
       IN  /\ safe_path # <<>>
           /\ safe_path[1] # "/"
           /\ \A i \in DOMAIN safe_path : safe_path[i] # "\\"
           /\ \A i \in DOMAIN Split(safe_path) :
                 Split(safe_path)[i] \notin {<<>>, <<".">>, <<".", ".">>}

(* C30. Sanitizer idempotence: for every key sanitize_s3_key accepts, the  *)
(* second call, on the path the first call returned, accepts and returns   *)
(* the same path.                                                          *)
C30_Idempotence ==
    (inv[1].call.fn = "sanitize_s3_key" /\ inv[1].call.done = 2)
    => /\ inv[1].call.again.ok
       /\ inv[1].call.again.path = inv[1].call.out.path

(* C37. At every point of bundling the accounted archive size              *)
(* bytes_written is the sum of the 512-byte-padded sizes of the entries    *)
(* added so far (processed_records) and is at most                         *)
(* max_bundle_on_disk_bytes.                                               *)
C37_AccountedSize ==
    \A s \in Slots :
        LET v == inv[s]
            RECURSIVE PaddedSum(_)
            PaddedSum(recs) ==
                IF recs = <<>> THEN 0
                ELSE PaddedSize(Head(recs).size) + PaddedSum(Tail(recs))
        IN  /\ v.bytes_written = PaddedSum(v.processed_records)
            /\ v.bytes_written <= max_bundle_on_disk_bytes

\* two entries were added and the padding of the second brought
\* bytes_written to the budget exactly, although the sum of the declared
\* sizes is below it
C37_Witness ==
    \E s \in Slots :
        /\ Len(inv[s].processed_records) = 2
        /\ inv[s].bytes_written = max_bundle_on_disk_bytes
        /\ total_size_bytes(inv[s].processed_records) < max_bundle_on_disk_bytes

C39_FailureList ==
    \A s \in Slots :
        LET failures == inv[s].batchItemFailures
        IN  /\ \A i, j \in DOMAIN failures : failures[i] = failures[j] => i = j
            /\ Range(failures) \subseteq Range(inv[s].batch)
            /\ Responded(s) => Range(failures) = inv[s].response

\* the handler returned two failed envelopes, and one of them had been
\* added to the failures for more than one reason (it was malformed and a
\* claim of one of its records failed, or it is in the map of a survivor)
C39_Witness ==
    \E s \in Slots :
        /\ Responded(s)
        /\ Len(inv[s].batchItemFailures) = 2
        /\ \E mid \in Range(inv[s].batchItemFailures) :
              /\ mid \in inv[s].failed_message_ids
              /\ \E p \in inv[s].map : p[2] = mid

(* C34. No leaked readers: once create_tar_gz_bundle_stream has finished   *)
(* (process_and_stage_batch returned or raised), every object stream       *)
(* opened by get_file_content_stream and every secondary buffer created    *)
(* for a record has been closed, on normal completion, on a graceful stop  *)
(* and on every error path.                                                *)
C34_NoLeakedReaders ==
    \A s \in Slots :
        inv[s].pc \in {"returned", "done"} => inv[s].opened \subseteq inv[s].closed

(* C35. Archive lifecycle order: the tar/gzip stream is finalized (end of  *)
(* archive blocks and gzip trailer written) before the hash is read, so    *)
(* the hash covers the whole stream; the hash is read and the spool file   *)
(* rewound before the upload starts, and the upload reads the open spool   *)
(* file from its start; close() on the hashing wrapper leaves the spool    *)
(* file open; the spool file is closed exactly when the bundle context     *)
(* exits, after the upload or on an error, and no step reads or writes it  *)
(* after that.                                                             *)
C35_LifecycleOrder ==
    [][\A s \in Slots :
          LET v == inv[s]
              w == inv'[s]
              n == Len(w.spool)
          IN  /\ (v.pc = "bundling" /\ w.pc = "yielded") =>
                    /\ n >= 2
                    /\ w.spool[n - 1][1] = "eof" /\ w.spool[n][1] = "gztrl"
                    /\ w.sha256_hash = Sha256(w.spool)
                    /\ w.spool_pos = 0
                    /\ w.uploadCalls = 0
                    /\ w.output_spool_file = "open"
              /\ w.uploadCalls > v.uploadCalls =>
                    /\ v.pc = "yielded"
                    /\ v.output_spool_file = "open"
                    /\ v.sha256_hash = Sha256(v.spool)
                    /\ w.uploadedBytes = v.spool
                    /\ w.uploadedHash = v.sha256_hash
              /\ (w.wrapper_closed /\ ~v.wrapper_closed) =>
                    w.output_spool_file = v.output_spool_file
              /\ (v.output_spool_file = "open" /\ w.output_spool_file # "open") <=>
                    (v.pc \in {"bundling", "yielded"} /\ w.pc = "returned")
              /\ v.output_spool_file = "closed" =>
                    /\ w.output_spool_file # "open"
                    /\ w.uploadCalls <= v.uploadCalls
                    /\ w.spool = v.spool \/ w.pc = "idle"]_vars

\* an archive with an entry was finalized, close() was called on the
\* wrapper, the upload read the whole stream, and the context has exited
C35_Witness ==
    \E s \in Slots :
        /\ inv[s].pc = "returned"
        /\ inv[s].exc = "none"
        /\ inv[s].processed_records # <<>>
        /\ inv[s].wrapper_closed
        /\ inv[s].uploadCalls = 1
        /\ inv[s].uploadedBytes = inv[s].spool
        /\ inv[s].output_spool_file = "closed"

\* record_failure calls made so far: those that returned and those running
FailureCalls(b) ==
    b.failures + Cardinality({c \in Callers : b.caller[c].op = "record_failure"})

(* C32. Circuit breaker opening: starting from CLOSED with no stored       *)
(* failures, the state leaves CLOSED only once record_failure has been     *)
(* called failure_threshold times, and after the failure_threshold-th call *)
(* returned (no time having passed) it is OPEN; the CircuitBreakerOpen     *)
(* metric is emitted exactly once for each change of the state to OPEN,    *)
(* and not for failures recorded while the circuit is already OPEN.        *)
(* Stated for the runs in which no request to the table raised an error.   *)
C32_Opening ==
    breaker.store_errors = 0 =>
        /\ StoredState(breaker.item) # "CLOSED" =>
              FailureCalls(breaker) >= breaker.failure_threshold
        /\ \A c \in Callers :
              breaker.caller[c].ret \in {"OPEN", "HALF_OPEN"} =>
                  FailureCalls(breaker) >= breaker.failure_threshold
        /\ (/\ \A c \in Callers : breaker.caller[c].pc = "idle"
            /\ breaker.failures = breaker.failure_threshold
            /\ breaker.calls = breaker.failures
            /\ breaker.time = 0) => StoredState(breaker.item) = "OPEN"
        /\ breaker.metric = breaker.opened

\* the step is caller c's put_item, for an ADD that returned new_count
PutBy(c) ==
    /\ breaker.caller[c].pc = "put_item"
    /\ breaker'.caller[c].pc = "idle"
    /\ breaker'.open_writes = breaker.open_writes + 1

(* C33. The stored state changes only along CLOSED -> OPEN or              *)
(* HALF_OPEN -> OPEN (by a record_failure whose failure count reached the  *)
(* threshold), OPEN -> HALF_OPEN (by a get_state more than                 *)
(* open_duration_seconds after last_updated) and HALF_OPEN -> CLOSED (by   *)
(* record_success); record_success in CLOSED or OPEN and get_state before  *)
(* the timeout leave the stored state unchanged.                           *)
(* Stated for the runs in which no request to the table raised an error.   *)
C33_Transitions ==
    [][LET from == StoredState(breaker.item)
           to == StoredState(breaker'.item)
       IN  (breaker'.store_errors = 0 /\ from # to) =>
             \/ /\ from \in {"CLOSED", "HALF_OPEN"} /\ to = "OPEN"
                /\ \E c \in Callers :
                      /\ PutBy(c)
                      /\ breaker.caller[c].new_count >= breaker.failure_threshold
             \/ /\ from = "OPEN" /\ to = "HALF_OPEN"
                /\ breaker.time - breaker.item.last_updated > open_duration_seconds
                /\ \E c \in Callers : breaker.caller[c].pc = "update_item"
                                        /\ breaker'.caller[c].pc # "update_item"
             \/ /\ from = "HALF_OPEN" /\ to = "CLOSED"
                /\ \E c \in Callers : breaker.caller[c].pc = "idle"
                                        /\ breaker'.caller[c].op = "record_success"]_vars

(* C36. The transitions are race-free under concurrent callers: the stored *)
(* state becomes HALF_OPEN only from OPEN and CLOSED only from HALF_OPEN,  *)
(* and of the callers that observe one expired OPEN period (one write of   *)
(* OPEN) exactly one performs the OPEN -> HALF_OPEN update; the update of  *)
(* every other caller fails its condition.                                 *)
(* Stated for the runs in which no request to the table raised an error.   *)
C36_RaceFree ==
    [][LET from == breaker.item.state
           to == breaker'.item.state
           updates == breaker'.half_opened
       IN  breaker'.store_errors = 0 =>
             /\ (to = "HALF_OPEN" /\ from # to) => from = "OPEN"
             /\ (to = "CLOSED" /\ from # to) => from = "HALF_OPEN"
             /\ \A i, j \in DOMAIN updates : updates[i] = updates[j] => i = j]_vars

(* C40. In HALF_OPEN, record_failure re-opens the circuit only when the    *)
(* failure count its ADD returned has reached failure_threshold; with a    *)
(* threshold above one, the first failed call after the state became       *)
(* HALF_OPEN leaves it HALF_OPEN; and every write of OPEN stores a failure *)
(* count of zero and the current time as last_updated.                     *)
(* Stated for the runs in which no request to the table raised an error.   *)
C40_HalfOpenFailure ==
    [][LET from == StoredState(breaker.item)
           to == StoredState(breaker'.item)
       IN  breaker'.store_errors = 0 =>
             /\ (from = "HALF_OPEN" /\ to = "OPEN") =>
                   \E c \in Callers :
                      /\ PutBy(c)
                      /\ breaker.caller[c].new_count >= breaker.failure_threshold
             /\ (from = "HALF_OPEN" /\ to = "OPEN" /\ breaker.failure_threshold > 1) =>
                   breaker.adds_in_state >= 2
             /\ breaker'.open_writes # breaker.open_writes =>
                   breaker'.item = [state |-> "OPEN", failure_count |-> 0,
                                    last_updated |-> breaker.time]]_vars

====
